---- MODULE Spec2Model ----
(***************************************************************************)
(* A model of slapql's schema converter (src/src/converter.ts):            *)
(* createGraphQLSchema turns a resolved WIT type graph and a table of      *)
(* native functions into a GraphQL schema.  The build is a recursive       *)
(* descent over the type graph; it is modelled by an explicit call stack   *)
(* so that the states in which a record's fields are still being built     *)
(* are visible.  GraphQL type objects live in a heap and are identified by *)
(* their address, which models JavaScript reference identity.              *)
(***************************************************************************)
EXTENDS Integers, Sequences, FiniteSets, TLC

\* ------------------------------------------------------------------ bounds

\* resolved.types holds the node ids 0 .. NumNodes-1
NumNodes == 2
\* depth of the JavaScript call stack at which a RangeError is raised
MaxDepth == 8
\* requests served by one schema
MaxRequests == 2

Nodes == 0 .. (NumNodes - 1)
\* a node id that resolved.types does not hold
MissingNode == NumNodes

\* ------------------------------------------------------------ strings

LowerChars == <<"a", "b", "c", "d", "e", "f", "g", "h", "i", "j", "k", "l", "m",
                "n", "o", "p", "q", "r", "s", "t", "u", "v", "w", "x", "y", "z">>
UpperChars == <<"A", "B", "C", "D", "E", "F", "G", "H", "I", "J", "K", "L", "M",
                "N", "O", "P", "Q", "R", "S", "T", "U", "V", "W", "X", "Y", "Z">>

IsLower(c) == \E k \in 1..26 : LowerChars[k] = c
IsUpper(c) == \E k \in 1..26 : UpperChars[k] = c
\* String.prototype.toUpperCase / toLowerCase on one character
ToUpper(c) == IF IsLower(c) THEN UpperChars[CHOOSE k \in 1..26 : LowerChars[k] = c] ELSE c
ToLower(c) == IF IsUpper(c) THEN LowerChars[CHOOSE k \in 1..26 : UpperChars[k] = c] ELSE c

\* str.replace(/-([a-z])/g, (_, letter) => letter.toUpperCase())
RECURSIVE ReplaceHyphens(_)
ReplaceHyphens(s) ==
  IF s = <<>> THEN <<>>
  ELSE IF Len(s) >= 2 /\ s[1] = "-" /\ IsLower(s[2])
       THEN <<ToUpper(s[2])>> \o ReplaceHyphens(Tail(Tail(s)))
       ELSE <<s[1]>> \o ReplaceHyphens(Tail(s))

\* camelCase.charAt(0).toLowerCase() + camelCase.slice(1)
toCamelCase(str) ==
  LET camelCase == ReplaceHyphens(str)
  IN  IF camelCase = <<>> THEN <<>> ELSE <<ToLower(camelCase[1])>> \o Tail(camelCase)

\* camelCase.charAt(0).toUpperCase() + camelCase.slice(1)
toPascalCase(str) ==
  LET camelCase == ReplaceHyphens(str)
  IN  IF camelCase = <<>> THEN <<>> ELSE <<ToUpper(camelCase[1])>> \o Tail(camelCase)

\* haystack.includes(needle), on sequences of characters
Contains(haystack, needle) ==
  \E k \in 0 .. (Len(haystack) - Len(needle)) :
     \A j \in 1 .. Len(needle) : haystack[k + j] = needle[j]

\* the names the model's type graphs and worlds use, as character sequences
n_next     == <<"n", "e", "x", "t">>
n_item_id  == <<"i", "t", "e", "m", "-", "i", "d">>
n_list_node == <<"l", "i", "s", "t", "-", "n", "o", "d", "e">>
n_shape    == <<"s", "h", "a", "p", "e">>
n_a        == <<"a">>
n_b        == <<"b">>
n_type     == <<"t", "y", "p", "e">>
n_ok       == <<"o", "k">>
n_error    == <<"e", "r", "r", "o", "r">>
n_input    == <<"i", "n", "p", "u", "t">>
n_reverse  == <<"r", "e", "v", "e", "r", "s", "e">>
n_get_item == <<"g", "e", "t", "-", "i", "t", "e", "m">>
n_str      == <<"s", "t", "r">>
n_max_len  == <<"m", "a", "x", "-", "l", "e", "n">>
n_types    == <<"t", "y", "p", "e", "s">>
v_hello    == <<"h", "e", "l", "l", "o">>
v_ab       == <<"a", "b">>

\* ------------------------------------------------------- WIT type graph

\* A Type is a primitive tag or a node id; Absent is an optional Type left out.
P(t) == [kind |-> "prim", tag |-> t, id |-> 0]
N(i) == [kind |-> "node", tag |-> "", id |-> i]
Absent == [kind |-> "absent", tag |-> "", id |-> 0]

PrimTags == {"bool", "u8", "u16", "u32", "u64", "s8", "s16", "s32", "s64",
             "f32", "f64", "char", "string", "error-context"}
\* a tag outside the Type union, as a graph produced by a newer parser may hold
BadTags == {"u128"}

\* JavaScript truthiness of an optional Type: undefined and the number 0 are falsy
Truthy(t) == t.kind = "prim" \/ (t.kind = "node" /\ t.id # 0)

\* A TypeDef: name (<<>> is null) and kind.  members are a record's fields or a
\* variant's cases, elems a tuple's types or the one Type of a list, option or
\* alias, ok and err a result's.
TypeDef(name, tag, members, elems, ok, err) ==
  [name |-> name, tag |-> tag, members |-> members, elems |-> elems, ok |-> ok, err |-> err]

Member(name, type) == [name |-> name, type |-> type]

MemberRefs == {P("string")} \cup {N(i) : i \in 0 .. NumNodes}
NodeRefs == {N(i) : i \in 0 .. NumNodes}

Kinds ==
  {TypeDef(n_list_node, "record", <<Member(n_next, r)>>, <<>>, Absent, Absent) : r \in MemberRefs}
  \cup {TypeDef(<<>>, "record", <<Member(n_item_id, P("u32")), Member(n_next, r)>>, <<>>, Absent, Absent)
          : r \in {N(i) : i \in Nodes}}
  \cup {TypeDef(<<>>, "list", <<>>, <<r>>, Absent, Absent) : r \in MemberRefs \cup {P("u128")}}
  \cup {TypeDef(<<>>, "option", <<>>, <<r>>, Absent, Absent) : r \in MemberRefs}
  \cup {TypeDef(<<>>, "result", <<>>, <<>>, ok, err)
          : ok \in MemberRefs \cup {Absent}, err \in {Absent, P("string")}}
  \cup {TypeDef(<<>>, "result", <<>>, <<>>, Absent, err) : err \in NodeRefs}
  \cup {TypeDef(<<>>, "tuple", <<>>, <<r>>, Absent, Absent) : r \in MemberRefs}
  \cup {TypeDef(<<>>, "tuple", <<>>, <<r, P("u32"), P("bool")>>, Absent, Absent) : r \in MemberRefs}
  \cup {TypeDef(<<>>, "tuple", <<>>, <<P("string"), r>>, Absent, Absent) : r \in MemberRefs}
  \cup {TypeDef(<<>>, "variant", <<Member(n_a, r), Member(n_b, Absent)>>, <<>>, Absent, Absent)
          : r \in MemberRefs}
  \cup {TypeDef(n_shape, "variant", <<Member(n_type, P("u32")), Member(n_a, Absent)>>, <<>>, Absent, Absent)}
  \cup {TypeDef(<<>>, "alias", <<>>, <<r>>, Absent, Absent) : r \in MemberRefs \cup {P("u32")}}
  \cup {TypeDef(<<>>, t, <<>>, <<>>, Absent, Absent)
          : t \in {"resource", "enum", "handle", "flags", "future", "stream", "unknown"}}

\* the Types a TypeDef refers to
RefsOf(def) ==
  {def.members[k].type : k \in 1 .. Len(def.members)}
  \cup {def.elems[k] : k \in 1 .. Len(def.elems)}
  \cup {def.ok, def.err}

\* ------------------------------------------------------- GraphQL types

\* The scalars graphql exports are singletons; they sit at fixed heap addresses.
GraphQLString == 1
GraphQLInt == 2
GraphQLFloat == 3
GraphQLBoolean == 4

\* A GraphQL type object.  kind is "scalar", "object" (GraphQLObjectType),
\* "input" (GraphQLInputObjectType), "list" or "nonnull".
TypeObject(kind, name, fields, ofType) ==
  [kind |-> kind, name |-> name, fields |-> fields, ofType |-> ofType]

Scalar(name) == TypeObject("scalar", <<name>>, <<>>, 0)

InitialHeap == <<Scalar("String"), Scalar("Int"), Scalar("Float"), Scalar("Boolean")>>

\* fields[key] = {type}: a JavaScript object keeps one entry per key, at the
\* position of the key's first assignment
Put(fields, key, type) ==
  IF \E k \in 1 .. Len(fields) : fields[k].name = key
  THEN [k \in 1 .. Len(fields) |->
          IF fields[k].name = key THEN Member(key, type) ELSE fields[k]]
  ELSE Append(fields, Member(key, type))

\* fields[key], 0 when the object has no such key
Get(fields, key) ==
  IF \E k \in 1 .. Len(fields) : fields[k].name = key
  THEN fields[CHOOSE k \in 1 .. Len(fields) : fields[k].name = key].type
  ELSE 0

\* -------------------------------------------------------------- worlds

\* An export of the world; only function exports are consumed.
Function(name, params, result) ==
  [name |-> name, isFunction |-> TRUE, params |-> params, result |-> result]
Interface(name) ==
  [name |-> name, isFunction |-> FALSE, params |-> <<>>, result |-> Absent]

TopRefs == {P(t) : t \in PrimTags \cup BadTags} \cup NodeRefs

\* one function whose parameter or result takes every Type in turn
TypeWorlds ==
  {<<Function(n_get_item, <<Member(n_item_id, t)>>, Absent)>> : t \in TopRefs}
  \cup {<<Function(n_get_item, <<>>, t)>> : t \in TopRefs}
  \cup {<<Function(n_get_item, <<Member(n_item_id, N(0))>>, N(0))>>}

\* the reverse component of the tests, alone and beside a second function
ServeWorlds ==
  { <<Function(n_reverse, <<Member(n_str, P("string"))>>, P("string"))>>,
    <<Interface(n_types),
      Function(n_reverse, <<Member(n_str, P("string"))>>, P("string")),
      Function(n_get_item, <<Member(n_item_id, P("u32")), Member(n_max_len, P("string"))>>, Absent)>> }

Worlds == TypeWorlds \cup ServeWorlds

\* the node ids a world's functions refer to, and those reachable from them
Roots(w) ==
  {t.id : t \in {r \in UNION {{w[k].result} \cup {w[k].params[j].type : j \in 1 .. Len(w[k].params)}
                               : k \in 1 .. Len(w)} : r.kind = "node"}}

RECURSIVE Reach(_, _, _)
Reach(g, ids, fuel) ==
  IF fuel = 0 THEN ids
  ELSE Reach(g,
             ids \cup {t.id : t \in {r \in UNION {RefsOf(g[n]) : n \in ids \cap Nodes} : r.kind = "node"}},
             fuel - 1)

DefaultDef == TypeDef(<<>>, "resource", <<>>, <<>>, Absent, Absent)

\* The graphs a world is built against.  A node no function can reach is
\* never read by the build, so it is fixed instead of enumerated.
Graphs(w) ==
  IF Roots(w) = {} THEN {[n \in Nodes |-> DefaultDef]}
  ELSE {g \in [Nodes -> Kinds] :
          \A n \in Nodes \ Reach(g, Roots(w), NumNodes) : g[n] = DefaultDef}

\* the keys of the function table a world's functions are looked up under
ModuleKeys(w) == {toCamelCase(w[k].name) : k \in {j \in 1 .. Len(w) : w[j].isFunction}}

Outcome(tag, value) == [tag |-> tag, value |-> value]

\* the response before any request is answered
NoResponse == [outcomes |-> <<>>, invalid |-> FALSE, dataNull |-> FALSE, sent |-> FALSE]

\* --------------------------------------------------------------- state

VARIABLES
  types,            \* resolved.types
  world,            \* resolved.worlds[0].exports, in Object.entries order
  module,           \* the keys of the function table that are bound
  heap,             \* the GraphQL type objects constructed so far
  outputTypeCache,  \* node id -> address, 0 when absent
  inputTypeCache,
  stack,            \* the frames of createInputType / convert* / createRecordType
  ret,              \* the value the top frame is returning, 0 while it runs
  fi,               \* index of the export the main loop is at
  stage,            \* where the main loop is within that export
  inputType,        \* the input type built for that export
  queryFields,
  schema,           \* address of the Query type of the returned schema, 0 if none
  phase,            \* "build", "failed", "hung" or "serving"
  error,            \* what the build threw
  log,              \* every conversion that returned: direction, Type, address
  served,           \* requests answered
  request,          \* the field selections of the request being executed
  status,           \* per selection: "new", "awaiting", "done" or "rejected"
  calls,            \* invocations of native functions during the request
  response          \* the outcome per selection, and whether data is null

buildVars == <<heap, outputTypeCache, inputTypeCache, stack, ret, fi, stage,
               inputType, queryFields, schema, error, log>>
serveVars == <<served, request, status, calls, response>>
inputVars == <<types, world, module>>
vars == <<types, world, module, heap, outputTypeCache, inputTypeCache, stack, ret,
          fi, stage, inputType, queryFields, schema, phase, error, log,
          served, request, status, calls, response>>

Init ==
  /\ world \in Worlds
  /\ types \in Graphs(world)
  /\ module \in IF world \in ServeWorlds
                THEN {ModuleKeys(world)} \cup {ModuleKeys(world) \ {k} : k \in ModuleKeys(world)}
                ELSE {ModuleKeys(world)}
  /\ heap = InitialHeap
  /\ outputTypeCache = [n \in 0 .. NumNodes |-> 0]
  /\ inputTypeCache = [n \in 0 .. NumNodes |-> 0]
  /\ stack = <<>>
  /\ ret = 0
  /\ fi = 1
  /\ stage = "start"
  /\ inputType = 0
  /\ queryFields = <<>>
  /\ schema = 0
  /\ phase = "build"
  /\ error = "none"
  /\ log = {}
  /\ served = 0
  /\ request = <<>>
  /\ status = <<>>
  /\ calls = <<>>
  /\ response = NoResponse

\* ---------------------------------------------------- alias resolution

\* resolveTypeIndex's "undefined", and the outcome of a while loop that comes
\* back to a node it has been at (it never leaves the loop)
Undefined == -1
Diverges == -2

\* resolveLoop returning the current index, not the original one, when the
\* chain ends at an alias of a primitive tag
RECURSIVE resolveLoopCurrent(_, _, _)
resolveLoopCurrent(type, idx, seen) ==
  IF idx \notin Nodes THEN idx
  ELSE LET def == types[idx]
       IN  IF def.tag = "alias"
           THEN IF def.elems[1].kind = "node"
                THEN IF def.elems[1].id \in seen
                     THEN Diverges
                     ELSE resolveLoopCurrent(type, def.elems[1].id, seen \cup {def.elems[1].id})
                ELSE idx
           ELSE idx

RECURSIVE resolveLoop(_, _, _)
resolveLoop(type, idx, seen) ==
  IF idx \notin Nodes THEN idx
  ELSE LET def == types[idx]
       IN  IF def.tag = "alias"
           THEN IF def.elems[1].kind = "node"
                THEN IF def.elems[1].id \in seen
                     THEN Diverges
                     ELSE resolveLoop(type, def.elems[1].id, seen \cup {def.elems[1].id})
                ELSE type.id
           ELSE idx

resolveTypeIndex(type) ==
  IF type.kind # "node" THEN Undefined ELSE resolveLoop(type, type.id, {type.id})

\* ------------------------------------------------------ type conversion

\* the switch over primitive tags of convertWitTypeToGraphQLOutput; 0: default
PrimitiveOutput(tag) ==
  CASE tag = "string" -> GraphQLString
    [] tag \in {"u8", "u16", "u32", "s8", "s16", "s32"} -> GraphQLInt
    [] tag \in {"f32", "f64"} -> GraphQLFloat
    [] tag = "bool" -> GraphQLBoolean
    [] tag \in {"u64", "s64"} -> GraphQLString
    [] tag = "char" -> GraphQLString
    [] tag = "error-context" -> GraphQLString
    [] OTHER -> 0

\* PrimitiveInput with the 64-bit integers sent to the integer scalar
PrimitiveInputInt64(tag) ==
  CASE tag = "string" -> GraphQLString
    [] tag \in {"u8", "u16", "u32", "s8", "s16", "s32", "u64", "s64"} -> GraphQLInt
    [] tag \in {"f32", "f64"} -> GraphQLFloat
    [] tag = "bool" -> GraphQLBoolean
    [] tag = "char" -> GraphQLString
    [] tag = "error-context" -> GraphQLString
    [] OTHER -> 0

\* the switch over primitive tags of convertWitTypeToGraphQLInput; 0: default
PrimitiveInput(tag) ==
  CASE tag = "string" -> GraphQLString
    [] tag \in {"u8", "u16", "u32", "s8", "s16", "s32"} -> GraphQLInt
    [] tag \in {"f32", "f64"} -> GraphQLFloat
    [] tag = "bool" -> GraphQLBoolean
    [] tag \in {"u64", "s64"} -> GraphQLString
    [] tag = "char" -> GraphQLString
    [] tag = "error-context" -> GraphQLString
    [] OTHER -> 0

\* A frame of the build's call stack.  op "call": a convertWitTypeToGraphQL*
\* call whose body has not run yet; "alias": one waiting for the conversion
\* of its alias target; "record", "list", "option", "result", "tuple",
\* "variant": one converting the members of node idx; "input":
\* createInputType converting the parameters of export fi.  i members are
\* done, acc holds what they gave, obj is a record's placeholder.
Frame(op, dir, type, idx, i, acc, obj) ==
  [op |-> op, dir |-> dir, type |-> type, idx |-> idx, i |-> i, acc |-> acc, obj |-> obj]

CallFrame(dir, type) == Frame("call", dir, type, 0, 0, <<>>, 0)

Top == stack[Len(stack)]
Below == SubSeq(stack, 1, Len(stack) - 1)
ReplaceTop(f) == Append(Below, f)

Cache(dir) == IF dir = "in" THEN inputTypeCache ELSE outputTypeCache

ObjectKind(dir) == IF dir = "in" THEN "input" ELSE "object"

\* the name createRecordType gives the type of record node typeIndex
RecordName(typeIndex, witType, dir) ==
  IF witType.name # <<>>
  THEN toPascalCase(witType.name) \o (IF dir = "in" THEN <<"Input">> ELSE <<>>)
  ELSE <<"Record_", ToString(typeIndex)>> \o (IF dir = "in" THEN <<"_Input">> ELSE <<>>)

VariantName(typeIndex, witType) ==
  IF witType.name # <<>> THEN toPascalCase(witType.name)
  ELSE <<"Variant_", ToString(typeIndex)>>

ResultName(typeIndex) == <<"Result_", ToString(typeIndex)>>

\* the Types a frame converts, in the order the code converts them
Members(f) ==
  CASE f.op = "input" -> world[fi].params
    [] f.op = "record" -> types[f.idx].members
    [] f.op = "variant" ->
         SelectSeq(types[f.idx].members, LAMBDA c : c.type # Absent)
    [] f.op \in {"list", "option"} -> <<Member(<<>>, types[f.idx].elems[1])>>
    [] f.op = "tuple" ->
         [k \in 1 .. Len(types[f.idx].elems) |-> Member(<<>>, types[f.idx].elems[k])]
    [] f.op = "result" ->
         (IF Truthy(types[f.idx].ok) THEN <<Member(n_ok, types[f.idx].ok)>> ELSE <<>>)
         \o (IF Truthy(types[f.idx].err) THEN <<Member(n_error, types[f.idx].err)>> ELSE <<>>)
    [] OTHER -> <<>>

\* the part of the state a step of the build changes
BuildStep(h, oc, ic, st, rt, lg) ==
  /\ heap' = h
  /\ outputTypeCache' = oc
  /\ inputTypeCache' = ic
  /\ stack' = st
  /\ ret' = rt
  /\ log' = lg
  /\ UNCHANGED <<fi, stage, inputType, queryFields, schema, phase, error>>
  /\ UNCHANGED inputVars
  /\ UNCHANGED serveVars

\* an exception leaves createGraphQLSchema: nothing catches it
Throw(e) ==
  /\ phase' = "failed"
  /\ error' = e
  /\ UNCHANGED <<heap, outputTypeCache, inputTypeCache, stack, ret, fi, stage,
                 inputType, queryFields, schema, log>>
  /\ UNCHANGED inputVars
  /\ UNCHANGED serveVars

\* the while loop of resolveTypeIndex never ends
Hang ==
  /\ phase' = "hung"
  /\ UNCHANGED <<heap, outputTypeCache, inputTypeCache, stack, ret, fi, stage,
                 inputType, queryFields, schema, error, log>>
  /\ UNCHANGED inputVars
  /\ UNCHANGED serveVars

\* typeCache.set(idx, v) on the cache of direction dir
OutSet(dir, idx, v) == IF dir = "out" THEN [outputTypeCache EXCEPT ![idx] = v] ELSE outputTypeCache
InSet(dir, idx, v) == IF dir = "in" THEN [inputTypeCache EXCEPT ![idx] = v] ELSE inputTypeCache

\* a call one frame deeper; the stack is finite
Push(st, f) ==
  IF Len(st) >= MaxDepth THEN Throw("RangeError")
  ELSE BuildStep(heap, outputTypeCache, inputTypeCache, Append(st, f), 0, log)

\* createRecordType up to its loop: the placeholder is made and cached
EnterRecord(f, idx) ==
  LET placeholder == TypeObject(ObjectKind(f.dir), RecordName(idx, types[idx], f.dir), <<>>, 0)
      addr == Len(heap) + 1
  IN  BuildStep(Append(heap, placeholder), OutSet(f.dir, idx, addr), InSet(f.dir, idx, addr),
                ReplaceTop(Frame("record", f.dir, f.type, idx, 0, <<>>, addr)), 0, log)

\* the body of convertWitTypeToGraphQLOutput / Input up to its first call
Call ==
  /\ phase = "build"
  /\ stack # <<>>
  /\ ret = 0
  /\ Top.op = "call"
  /\ LET f == Top
         idx == resolveTypeIndex(f.type)
     IN  CASE idx = Diverges -> Hang
           [] idx = Undefined ->
                LET scalar == IF f.type.kind # "prim" THEN 0
                              ELSE IF f.dir = "in" THEN PrimitiveInput(f.type.tag)
                              ELSE PrimitiveOutput(f.type.tag)
                IN  IF f.type.kind # "prim" THEN Throw("ExpectedPrimitive")
                    ELSE IF scalar = 0 THEN Throw("UnsupportedPrimitive")
                    ELSE BuildStep(heap, outputTypeCache, inputTypeCache, stack, scalar, log)
           [] idx >= 0 /\ Cache(f.dir)[idx] # 0 ->
                BuildStep(heap, outputTypeCache, inputTypeCache, stack, Cache(f.dir)[idx], log)
           [] idx >= 0 /\ Cache(f.dir)[idx] = 0 /\ idx \notin Nodes -> Throw("UnresolvedType")
           [] OTHER ->
                LET witType == types[idx]
                IN  CASE witType.tag = "alias" /\ witType.elems[1].kind = "node" ->
                           Push(ReplaceTop(Frame("alias", f.dir, f.type, idx, 0, <<>>, 0)),
                                CallFrame(f.dir, witType.elems[1]))
                      [] witType.tag = "record" -> EnterRecord(f, idx)
                      [] witType.tag \in {"resource", "enum", "handle", "flags", "future", "stream"} ->
                           BuildStep(heap, OutSet(f.dir, idx, GraphQLString),
                                     InSet(f.dir, idx, GraphQLString), stack, GraphQLString, log)
                      [] witType.tag \in {"list", "option", "result", "tuple"} ->
                           BuildStep(heap, outputTypeCache, inputTypeCache,
                                     ReplaceTop(Frame(witType.tag, f.dir, f.type, idx, 0, <<>>, 0)), 0, log)
                      [] witType.tag = "variant" ->
                           BuildStep(heap, outputTypeCache, inputTypeCache,
                                     ReplaceTop(Frame("variant", f.dir, f.type, idx, 0,
                                                      <<Member(n_type, GraphQLString)>>, 0)), 0, log)
                      [] OTHER -> Throw("UnsupportedKind")

\* the next member's conversion is called
NextMember ==
  /\ phase = "build"
  /\ stack # <<>>
  /\ ret = 0
  /\ Top.op \notin {"call", "alias"}
  /\ Top.i < Len(Members(Top))
  /\ Push(stack, CallFrame(Top.dir, Members(Top)[Top.i + 1].type))

\* new GraphQLObjectType / GraphQLInputObjectType({name, fields}) of createRecordType
BuiltRecord(f) ==
  TypeObject(ObjectKind(f.dir), RecordName(f.idx, types[f.idx], f.dir), f.acc, 0)

\* new GraphQLList(convert(witType.kind.list))
BuiltList(f) == TypeObject("list", <<>>, <<>>, f.acc[1].type)

\* BuiltTuple taking the last element: new GraphQLList(tupleTypes[tupleTypes.length - 1])
BuiltTupleLast(f) == TypeObject("list", <<>>, <<>>, f.acc[Len(f.acc)].type)

\* new GraphQLList(tupleTypes[0])
BuiltTuple(f) == TypeObject("list", <<>>, <<>>, f.acc[1].type)

\* the Result_<idx> type: okType and errorType default when ok, err are falsy
BuiltResult(f) ==
  LET okType == IF Truthy(types[f.idx].ok) THEN f.acc[1].type ELSE GraphQLBoolean
      errorType == IF Truthy(types[f.idx].err) THEN f.acc[Len(f.acc)].type ELSE GraphQLString
  IN  TypeObject(ObjectKind(f.dir), ResultName(f.idx),
                 <<Member(n_ok, okType), Member(n_error, errorType)>>, 0)

\* the variant's type: fields holds type and one entry per case with a payload
BuiltVariant(f) ==
  TypeObject(ObjectKind(f.dir), VariantName(f.idx, types[f.idx]), f.acc, 0)

\* new GraphQLInputObjectType({name: `${toPascalCase(functionName)}Input`, fields})
BuiltInput(f) ==
  TypeObject("input", toPascalCase(world[fi].name) \o <<"Input">>, f.acc, 0)

\* what a frame constructs once its members are converted
Built(f) ==
  CASE f.op = "record" -> BuiltRecord(f)
    [] f.op = "list" -> BuiltList(f)
    [] f.op = "tuple" -> BuiltTuple(f)
    [] f.op = "result" -> BuiltResult(f)
    [] f.op = "variant" -> BuiltVariant(f)
    [] f.op = "input" -> BuiltInput(f)

\* the members are converted: the type is constructed, cached and returned
Finish ==
  /\ phase = "build"
  /\ stack # <<>>
  /\ ret = 0
  /\ Top.op \notin {"call", "alias"}
  /\ Top.i = Len(Members(Top))
  /\ LET f == Top
         addr == Len(heap) + 1
     IN  CASE f.op = "option" ->
                BuildStep(heap, OutSet(f.dir, f.idx, f.acc[1].type),
                          InSet(f.dir, f.idx, f.acc[1].type), stack, f.acc[1].type, log)
           [] f.op = "tuple" /\ f.acc = <<>> -> Throw("TypeError")
           [] f.op = "input" ->
                BuildStep(Append(heap, Built(f)), outputTypeCache, inputTypeCache, stack, addr, log)
           [] OTHER ->
                BuildStep(Append(heap, Built(f)), OutSet(f.dir, f.idx, addr),
                          InSet(f.dir, f.idx, addr), stack, addr, log)

\* queryFields[toCamelCase(name)] = {type, args: {input}, resolve}, and the
\* loop moves to the next export
Register(returnType, inType) ==
  LET key == toCamelCase(world[fi].name)
      entry == [name |-> key, type |-> returnType, input |-> inType, fn |-> fi]
  IN  /\ queryFields' =
           IF \E k \in 1 .. Len(queryFields) : queryFields[k].name = key
           THEN [k \in 1 .. Len(queryFields) |->
                   IF queryFields[k].name = key THEN entry ELSE queryFields[k]]
           ELSE Append(queryFields, entry)
      /\ fi' = fi + 1
      /\ stage' = "start"
      /\ inputType' = 0

\* ParamField without the GraphQLNonNull wrapper: {type: converted}
ParamFieldNullable(h, converted) == [heap |-> h, type |-> converted]

\* {type: new GraphQLNonNull(converted)}: the heap after it and the field's type
ParamField(h, converted) ==
  [heap |-> Append(h, TypeObject("nonnull", <<>>, <<>>, converted)), type |-> Len(h) + 1]

\* the top frame returns ret to its caller
Return ==
  /\ phase = "build"
  /\ stack # <<>>
  /\ ret # 0
  /\ LET f == Top
         log2 == IF f.op = "input" THEN log
                 ELSE log \cup {[dir |-> f.dir, type |-> f.type, value |-> ret]}
     IN  IF Below = <<>>
         THEN /\ stack' = <<>>
              /\ ret' = 0
              /\ log' = log2
              /\ IF f.op = "input"
                 THEN /\ inputType' = ret
                      /\ stage' = "result"
                      /\ UNCHANGED <<queryFields, fi>>
                 ELSE Register(ret, inputType)
              /\ UNCHANGED <<heap, outputTypeCache, inputTypeCache, schema, phase, error>>
              /\ UNCHANGED inputVars
              /\ UNCHANGED serveVars
         ELSE LET p == Below[Len(Below)]
                  m == Members(p)[p.i + 1]
              IN  CASE p.op = "alias" ->
                         BuildStep(heap, outputTypeCache, inputTypeCache, Below, ret, log2)
                    [] p.op = "input" ->
                         BuildStep(ParamField(heap, ret).heap,
                                   outputTypeCache, inputTypeCache,
                                   Append(SubSeq(Below, 1, Len(Below) - 1),
                                          [p EXCEPT !.i = p.i + 1,
                                                    !.acc = Put(p.acc, toCamelCase(m.name),
                                                                ParamField(heap, ret).type)]),
                                   0, log2)
                    [] p.op \in {"record", "variant"} ->
                         BuildStep(heap, outputTypeCache, inputTypeCache,
                                   Append(SubSeq(Below, 1, Len(Below) - 1),
                                          [p EXCEPT !.i = p.i + 1,
                                                    !.acc = Put(p.acc, toCamelCase(m.name), ret)]),
                                   0, log2)
                    [] OTHER ->
                         BuildStep(heap, outputTypeCache, inputTypeCache,
                                   Append(SubSeq(Below, 1, Len(Below) - 1),
                                          [p EXCEPT !.i = p.i + 1,
                                                    !.acc = Append(p.acc, Member(m.name, ret))]),
                                   0, log2)

\* ------------------------------------------------------- the main loop

\* an export that is no function is passed over
SkipExport ==
  /\ phase = "build"
  /\ stack = <<>>
  /\ stage = "start"
  /\ fi <= Len(world)
  /\ ~world[fi].isFunction
  /\ fi' = fi + 1
  /\ UNCHANGED <<heap, outputTypeCache, inputTypeCache, stack, ret, stage, inputType,
                 queryFields, schema, phase, error, log>>
  /\ UNCHANGED inputVars
  /\ UNCHANGED serveVars

\* createInputType(name, func.params) is called
BeginExport ==
  /\ phase = "build"
  /\ stack = <<>>
  /\ stage = "start"
  /\ fi <= Len(world)
  /\ world[fi].isFunction
  /\ stack' = <<Frame("input", "in", Absent, 0, 0, <<>>, 0)>>
  /\ stage' = "input"
  /\ UNCHANGED <<heap, outputTypeCache, inputTypeCache, ret, fi, inputType,
                 queryFields, schema, phase, error, log>>
  /\ UNCHANGED inputVars
  /\ UNCHANGED serveVars

\* returnType: the result's conversion is called, or Boolean without a result
ConvertResult ==
  /\ phase = "build"
  /\ stack = <<>>
  /\ stage = "result"
  /\ IF world[fi].result # Absent
     THEN /\ stack' = <<CallFrame("out", world[fi].result)>>
          /\ stage' = "await"
          /\ UNCHANGED <<fi, inputType, queryFields>>
     ELSE /\ Register(GraphQLBoolean, inputType)
          /\ UNCHANGED stack
  /\ UNCHANGED <<heap, outputTypeCache, inputTypeCache, ret, schema, phase, error, log>>
  /\ UNCHANGED inputVars
  /\ UNCHANGED serveVars

\* new GraphQLObjectType({name: "Query", fields: queryFields}), new GraphQLSchema
Assemble ==
  /\ phase = "build"
  /\ stack = <<>>
  /\ stage = "start"
  /\ fi > Len(world)
  /\ heap' = Append(heap, TypeObject("object", <<"Query">>,
                                     [k \in 1 .. Len(queryFields) |->
                                        Member(queryFields[k].name, queryFields[k].type)], 0))
  /\ schema' = Len(heap) + 1
  /\ phase' = "serving"
  /\ UNCHANGED <<outputTypeCache, inputTypeCache, stack, ret, fi, stage, inputType,
                 queryFields, error, log>>
  /\ UNCHANGED inputVars
  /\ UNCHANGED serveVars

\* ------------------------------------------------------------ serving

\* the literals a client passes for the first, second, ... member of an
\* input object; each stands for a literal of its member's scalar type
ArgValues == <<v_hello, v_ab>>
\* an argument the input object does not hold: JavaScript's undefined
UndefinedValue == <<"undefined">>

RECURSIVE Reverse(_)
Reverse(s) == IF s = <<>> THEN <<>> ELSE Append(Reverse(Tail(s)), s[1])

RECURSIVE Concat(_)
Concat(ss) == IF ss = <<>> THEN <<>> ELSE ss[1] \o Concat(Tail(ss))

\* what a bound native function returns: the test component's reverse, taken
\* over all its arguments
Native(args) == Reverse(Concat(args))

\* how a call of a native function ends: it returns, rejects with an Error,
\* or rejects with a value that is no Error
NativeOutcomes == {"return", "throwError", "throwValue"}
NativeMessage == <<"b", "o", "o", "m">>

\* A selection of a query: a field of Query, with the input argument left
\* out or given as an object holding some of the input type's members.  The
\* literals are scalars, so only members of scalar type are given a value.
Selection(field, hasInput, input) == [field |-> field, hasInput |-> hasInput, input |-> input]

InputObjects(k) ==
  LET members == heap[queryFields[k].input].fields
      scalars == {j \in 1 .. Len(members) : heap[heap[members[j].type].ofType].kind = "scalar"}
  IN  {SelectSeq([j \in 1 .. Len(members) |->
                    Member(members[j].name, IF j \in given THEN ArgValues[j] ELSE UndefinedValue)],
                 LAMBDA m : m.type # UndefinedValue)
         : given \in SUBSET scalars}

Selections(k) ==
  {Selection(k, FALSE, <<>>)} \cup {Selection(k, TRUE, o) : o \in InputObjects(k)}

Requests ==
  {<<s>> : s \in UNION {Selections(k) : k \in 1 .. Len(queryFields)}}
  \cup {<<s, t>> : s \in UNION {Selections(k) : k \in 1 .. Len(queryFields)},
                   t \in UNION {Selections(k) : k \in 1 .. Len(queryFields)}}

\* graphql's validation of an argument against the field's input type: a
\* non-null member of the input object type must be given
ValidSelection(s) ==
  LET members == heap[queryFields[s.field].input].fields
  IN  s.hasInput =>
        \A j \in 1 .. Len(members) :
           heap[members[j].type].kind = "nonnull" =>
              \E k \in 1 .. Len(s.input) : s.input[k].name = members[j].name

Busy == request # <<>> /\ ~response.sent

ServeStep(rq, st, cl, rs, sv) ==
  /\ request' = rq
  /\ status' = st
  /\ calls' = cl
  /\ response' = rs
  /\ served' = sv
  /\ UNCHANGED buildVars
  /\ UNCHANGED phase
  /\ UNCHANGED inputVars

\* graphql({schema, source}): the query is validated; an invalid one is
\* answered with errors and not executed
Request ==
  /\ phase = "serving"
  /\ ~Busy
  /\ served < MaxRequests
  /\ \E rq \in Requests :
       /\ Len(rq) = 2 => rq[1].field # rq[2].field
       /\ IF \A k \in 1 .. Len(rq) : ValidSelection(rq[k])
          THEN ServeStep(rq, [k \in 1 .. Len(rq) |-> "new"], <<>>,
                         [outcomes |-> [k \in 1 .. Len(rq) |-> [tag |-> "pending", value |-> <<>>]],
                          invalid |-> FALSE, dataNull |-> FALSE, sent |-> FALSE],
                         served)
          ELSE ServeStep(rq, [k \in 1 .. Len(rq) |-> "rejected"], <<>>,
                         [outcomes |-> <<>>, invalid |-> TRUE, dataNull |-> TRUE, sent |-> TRUE],
                         served + 1)

\* input[key]
Lookup(input, key) ==
  IF \E k \in 1 .. Len(input) : input[k].name = key
  THEN input[CHOOSE k \in 1 .. Len(input) : input[k].name = key].type
  ELSE UndefinedValue

\* ResolverArgs reading input[param.name], the name as the world declares it
ResolverArgsRaw(func, input) ==
  [j \in 1 .. Len(func.params) |-> Lookup(input, func.params[j].name)]

\* func.params.map((param) => input[toCamelCase(param.name)])
ResolverArgs(func, input) ==
  [j \in 1 .. Len(func.params) |-> Lookup(input, toCamelCase(func.params[j].name))]

\* new Error(`Error executing ${name}: ${error.message}`)
ErrorExecuting(name, message) == <<"Error executing ">> \o name \o <<": ">> \o message
\* new Error(`Unknown error executing ${name}`)
UnknownError(name) == <<"Unknown error executing ">> \o name

\* the resolver of a selection runs up to its await: the arguments are
\* projected and the bound function is invoked; a TypeError raised on the
\* way is caught and rethrown
Invoke(k) ==
  /\ phase = "serving"
  /\ Busy
  /\ k \in 1 .. Len(request)
  /\ status[k] = "new"
  /\ \A j \in 1 .. (k - 1) : status[j] # "new"
  /\ LET s == request[k]
         func == world[queryFields[s.field].fn]
         camelCaseName == toCamelCase(func.name)
     IN  IF ~s.hasInput /\ func.params # <<>>
         THEN ServeStep(request, [status EXCEPT ![k] = "done"], calls,
                        [response EXCEPT !.outcomes[k] =
                           Outcome("error", ErrorExecuting(func.name, <<"Cannot read properties of undefined">>))],
                        served)
         ELSE IF camelCaseName \notin module
         THEN ServeStep(request, [status EXCEPT ![k] = "done"], calls,
                        [response EXCEPT !.outcomes[k] =
                           Outcome("error", ErrorExecuting(func.name, <<"module[camelCaseName] is not a function">>))],
                        served)
         ELSE ServeStep(request, [status EXCEPT ![k] = "awaiting"],
                        Append(calls, [sel |-> k, key |-> camelCaseName,
                                       args |-> ResolverArgs(func, s.input),
                                       result |-> Outcome("pending", <<>>)]),
                        response, served)

\* how the native call ends: what it returned, or what it threw
NativeResult(args, o) ==
  CASE o = "return" -> Outcome("return", Native(args))
    [] o = "throwError" -> Outcome("throwError", NativeMessage)
    [] OTHER -> Outcome("throwValue", <<>>)

\* Settled with a catch clause that rethrows what it caught
SettledRethrow(name, result) ==
  CASE result.tag = "return" -> Outcome("ok", result.value)
    [] result.tag = "throwError" -> Outcome("error", result.value)
    [] OTHER -> Outcome("error", <<"Unknown error">>)

\* return await module[camelCaseName](...args), and the catch clause
Settled(name, result) ==
  CASE result.tag = "return" -> Outcome("ok", result.value)
    [] result.tag = "throwError" -> Outcome("error", ErrorExecuting(name, result.value))
    [] OTHER -> Outcome("error", UnknownError(name))

\* the awaited native call ends and the resolver returns or rethrows
Settle(k) ==
  /\ phase = "serving"
  /\ Busy
  /\ k \in 1 .. Len(request)
  /\ status[k] = "awaiting"
  /\ \E o \in NativeOutcomes :
       LET func == world[queryFields[request[k].field].fn]
           c == CHOOSE n \in 1 .. Len(calls) : calls[n].sel = k
           result == NativeResult(calls[c].args, o)
       IN  ServeStep(request, [status EXCEPT ![k] = "done"],
                     [calls EXCEPT ![c].result = result],
                     [response EXCEPT !.outcomes[k] = Settled(func.name, result)],
                     served)

\* every selection has settled: the response is assembled.  An error in a
\* field of non-null type would null the whole of data; otherwise it nulls
\* that field only.
Respond ==
  /\ phase = "serving"
  /\ Busy
  /\ \A k \in 1 .. Len(request) : status[k] = "done"
  /\ ServeStep(request, status, calls,
               [response EXCEPT
                  !.dataNull = \E k \in 1 .. Len(request) :
                                  /\ response.outcomes[k].tag = "error"
                                  /\ heap[queryFields[request[k].field].type].kind = "nonnull",
                  !.sent = TRUE],
               served + 1)

ServeNext == Request \/ (\E k \in 1 .. 2 : Invoke(k)) \/ (\E k \in 1 .. 2 : Settle(k)) \/ Respond

BuildNext == SkipExport \/ BeginExport \/ Call \/ NextMember \/ Finish \/ Return
             \/ ConvertResult \/ Assemble

Next == BuildNext \/ ServeNext

Spec == Init /\ [][Next]_vars

\* --------------------------------------------------------------- claims

\* the node a logged conversion was a conversion of, and what that node is
NodeOf(e) == resolveTypeIndex(e.type)
ConvertedAs(e, tag) ==
  /\ e.type.kind = "node"
  /\ NodeOf(e) \in Nodes
  /\ types[NodeOf(e)].tag = tag

\* a conversion of Type t in direction dir returned the object at address v
Converted(dir, t, v) == [dir |-> dir, type |-> t, value |-> v] \in log

\* C1: within one build, any two conversions of the same node id in the same
\* direction return the identical object, also when one of them is requested
\* while the node's own members are still being built.
C1_SameObject ==
  \A e1 \in log : \A e2 \in log :
     (e1.type.kind = "node" /\ e1.dir = e2.dir /\ e1.type = e2.type) => e1.value = e2.value

\* record r reaches itself through its members
SelfReferential(r) ==
  r \in Reach(types, {t.id : t \in {x \in RefsOf(types[r]) : x.kind = "node"}}, NumNodes)

\* createRecordType has returned for record r in direction dir
RecordFinished(dir, r) ==
  /\ Cache(dir)[r] # 0
  /\ \A k \in 1 .. Len(stack) : ~(stack[k].op = "record" /\ stack[k].idx = r /\ stack[k].dir = dir)

\* C2: once the conversion of a self-referential record R has finished, every
\* reference to R's type handed out while its fields were being built is the
\* object returned and cached for R, and that object carries R's full field set.
C2_PlaceholderFilled ==
  \A e \in log :
     (/\ ConvertedAs(e, "record")
      /\ SelfReferential(NodeOf(e))
      /\ RecordFinished(e.dir, NodeOf(e)))
     => /\ e.value = Cache(e.dir)[NodeOf(e)]
        /\ Len(heap[e.value].fields) = Len(types[NodeOf(e)].members)

\* the camelCase form of the names the worlds use, written out
ExpectedCamel(name) ==
  CASE name = n_get_item -> <<"g", "e", "t", "I", "t", "e", "m">>
    [] name = n_item_id -> <<"i", "t", "e", "m", "I", "d">>
    [] name = n_max_len -> <<"m", "a", "x", "L", "e", "n">>
    [] name = n_reverse -> <<"r", "e", "v", "e", "r", "s", "e">>
    [] name = n_str -> <<"s", "t", "r">>

\* the function a selection's field was declared for
FunctionOf(k) == world[queryFields[request[k].field].fn]

\* the value the input object of selection k holds under key, if any
InputValue(k, key) ==
  IF \E j \in 1 .. Len(request[k].input) : request[k].input[j].name = key
  THEN request[k].input[CHOOSE j \in 1 .. Len(request[k].input) : request[k].input[j].name = key].type
  ELSE UndefinedValue

\* C3: the resolver of field camelCase(f) invokes exactly the function-table
\* entry keyed camelCase(f), with the arguments input[camelCase(p1)], ...,
\* input[camelCase(pn)] in f's declared parameter order, and returns that
\* call's result unmodified (reverse with {str: "hello"} returns "olleh").
C3_ResolverMarshals ==
  /\ \A k \in 1 .. Len(queryFields) :
        queryFields[k].name = ExpectedCamel(world[queryFields[k].fn].name)
  /\ \A c \in 1 .. Len(calls) :
        LET k == calls[c].sel
            f == FunctionOf(k)
        IN  /\ calls[c].key = ExpectedCamel(f.name)
            /\ calls[c].key \in module
            /\ Len(calls[c].args) = Len(f.params)
            /\ \A j \in 1 .. Len(f.params) :
                  calls[c].args[j] = InputValue(k, ExpectedCamel(f.params[j].name))
            /\ \A d \in 1 .. Len(calls) : calls[d].sel = k => d = c
            /\ calls[c].result.tag = "return" =>
                  response.outcomes[k] = Outcome("ok", calls[c].result.value)
            /\ (calls[c].result.tag = "return" /\ f.name = n_reverse
                /\ calls[c].args = <<v_hello>>) =>
                  response.outcomes[k].value = <<"o", "l", "l", "e", "h">>

\* a two-parameter function was invoked with both arguments and returned
C3_Witness ==
  \E c \in 1 .. Len(calls) :
     /\ calls[c].key = <<"g", "e", "t", "I", "t", "e", "m">>
     /\ calls[c].args = <<v_hello, v_ab>>
     /\ calls[c].result.tag = "return"
     /\ response.outcomes[calls[c].sel].tag = "ok"

\* selection k gives an input object that leaves out a declared parameter
OmitsParameter(k) ==
  /\ request[k].hasInput
  /\ \E j \in 1 .. Len(FunctionOf(k).params) :
        InputValue(k, ExpectedCamel(FunctionOf(k).params[j].name)) = UndefinedValue

\* C4: every parameter is a non-null member of the field's input type, so a
\* query whose input object omits a declared parameter is rejected by
\* validation with an error and the native function is never invoked for it.
C4_MissingParameterRejected ==
  /\ \A k \in 1 .. Len(queryFields) :
        \A j \in 1 .. Len(world[queryFields[k].fn].params) :
           LET member == Get(heap[queryFields[k].input].fields,
                             ExpectedCamel(world[queryFields[k].fn].params[j].name))
           IN  member # 0 /\ heap[member].kind = "nonnull"
  /\ (\E k \in 1 .. Len(request) : OmitsParameter(k)) =>
        /\ response.invalid
        /\ response.sent
        /\ calls = <<>>
        /\ \A k \in 1 .. Len(request) : status[k] = "rejected"

\* reverse(input: {}) beside a complete selection was answered with an error
C4_Witness ==
  /\ Len(request) = 2
  /\ OmitsParameter(1)
  /\ ~OmitsParameter(2)
  /\ request[2].hasInput
  /\ response.invalid

\* nothing the build produced or was given changes while requests are served
ServingFrame ==
  phase = "serving" =>
     UNCHANGED <<types, world, module, heap, outputTypeCache, inputTypeCache,
                 queryFields, schema, phase>>

\* what a request's selections have come to
ServingOutcomes ==
  /\ \A c \in 1 .. Len(calls) :
        calls[c].result.tag \in {"throwError", "throwValue"} =>
           /\ response.outcomes[calls[c].sel].tag = "error"
           /\ Contains(response.outcomes[calls[c].sel].value, FunctionOf(calls[c].sel).name)
  /\ (response.sent /\ ~response.invalid) =>
        /\ ~response.dataNull
        /\ \A c \in 1 .. Len(calls) :
              calls[c].result.tag = "return" =>
                 response.outcomes[calls[c].sel] = Outcome("ok", calls[c].result.value)
  /\ (phase = "serving" /\ ~Busy /\ served < MaxRequests /\ queryFields # <<>>) =>
        ENABLED Request

\* C5: when the bound native function throws or rejects, with an Error or
\* with any other value, the resolver re-raises an error whose message
\* contains the function's declared name; the other fields of the request
\* still complete; and schema, type graph and function table are unchanged,
\* so that later requests are served.
C5_FailureConfined == [](ServingOutcomes) /\ [][ServingFrame]_vars

\* a request was answered in which one field failed and its sibling returned
C5_Witness ==
  /\ response.sent
  /\ Len(calls) = 2
  /\ calls[1].result.tag = "throwValue"
  /\ calls[2].result.tag = "return"
  /\ response.outcomes[calls[2].sel].tag = "ok"
  /\ served = MaxRequests

\* the scalar each primitive tag maps to
ExpectedScalar(tag) ==
  CASE tag = "bool" -> GraphQLBoolean
    [] tag \in {"u8", "u16", "u32", "s8", "s16", "s32"} -> GraphQLInt
    [] tag \in {"f32", "f64"} -> GraphQLFloat
    [] tag \in {"string", "char", "error-context", "u64", "s64"} -> GraphQLString

\* C6: in either direction a primitive tag converts to bool -> Boolean;
\* u8, u16, u32, s8, s16, s32 -> Int; f32, f64 -> Float; string, char,
\* error-context, u64, s64 -> String; any other tag fails with an
\* UnsupportedPrimitive error.
C6_PrimitiveTable ==
  /\ \A e \in log :
        e.type.kind = "prim" =>
           /\ e.type.tag \in PrimTags
           /\ e.value = ExpectedScalar(e.type.tag)
  /\ (stack # <<>> /\ Top.op = "call" /\ Top.type.kind = "prim") =>
        /\ ret # 0 => (Top.type.tag \in PrimTags /\ ret = ExpectedScalar(Top.type.tag))
        /\ phase = "failed" => (Top.type.tag \notin PrimTags /\ error = "UnsupportedPrimitive")
        /\ Top.type.tag \notin PrimTags => ret = 0

\* the same tag was converted in both directions
C6_Witness ==
  /\ Converted("in", P("string"), GraphQLString)
  /\ Converted("out", P("string"), GraphQLString)

\* the failure of C6: an unsupported tag was met in the input direction
C6_WitnessUnsupported ==
  /\ phase = "failed"
  /\ error = "UnsupportedPrimitive"
  /\ Top.dir = "in"

\* C7: a result node n converts to an aggregate named Result_<n> with exactly
\* the members ok and error; ok is typed by the conversion of the ok Type
\* whenever one is present, whatever it refers to, and Boolean only when ok
\* is absent; error likewise, with String when err is absent.
C7_ResultMembers ==
  \A e \in log :
     ConvertedAs(e, "result") =>
        LET n == NodeOf(e)
            t == heap[e.value]
        IN  /\ t.kind = ObjectKind(e.dir)
            /\ t.name = <<"Result_", ToString(n)>>
            /\ Len(t.fields) = 2
            /\ t.fields[1].name = n_ok
            /\ t.fields[2].name = n_error
            /\ IF types[n].ok = Absent THEN t.fields[1].type = GraphQLBoolean
               ELSE Converted(e.dir, types[n].ok, t.fields[1].type)
            /\ IF types[n].err = Absent THEN t.fields[2].type = GraphQLString
               ELSE Converted(e.dir, types[n].err, t.fields[2].type)

\* the cases of variant n that declare a payload
PayloadCases(n) == SelectSeq(types[n].members, LAMBDA c : c.type # Absent)

\* C8: a variant converts to an aggregate with a String member named type
\* plus exactly one member per case that declares a payload, named
\* camelCase(case name) and typed by the conversion of the payload; cases
\* without a payload contribute no member.
C8_VariantMembers ==
  \A e \in log :
     ConvertedAs(e, "variant") =>
        LET n == NodeOf(e)
            t == heap[e.value]
        IN  /\ Get(t.fields, n_type) = GraphQLString
            /\ Len(t.fields) = 1 + Len(PayloadCases(n))
            /\ \A k \in 1 .. Len(PayloadCases(n)) :
                  Converted(e.dir, PayloadCases(n)[k].type,
                            Get(t.fields, toCamelCase(PayloadCases(n)[k].name)))

\* C9: a tuple converts to a list-of type whose element type is the
\* conversion of the tuple's first element type, whatever the number and the
\* types of the remaining elements.
C9_TupleFirstElement ==
  \A e \in log :
     ConvertedAs(e, "tuple") =>
        /\ heap[e.value].kind = "list"
        /\ Converted(e.dir, types[NodeOf(e)].elems[1], heap[e.value].ofType)

\* a tuple of three differently-typed elements was converted
C9_Witness ==
  \E e \in log :
     /\ ConvertedAs(e, "tuple")
     /\ types[NodeOf(e)].elems = <<P("string"), P("u32"), P("bool")>>
     /\ heap[e.value].ofType = GraphQLString

\* some Type the world's functions reach cannot be resolved: a node id the
\* graph does not hold, a node of unsupported kind, an unsupported tag
Unresolvable ==
  LET reached == Reach(types, Roots(world), NumNodes)
      tags == {t.tag : t \in {x \in UNION {RefsOf(types[n]) : n \in reached \cap Nodes} : x.kind = "prim"}}
              \cup {t.tag : t \in {x \in UNION {{world[k].result}
                                                  \cup {world[k].params[j].type : j \in 1 .. Len(world[k].params)}
                                                  : k \in 1 .. Len(world)} : x.kind = "prim"}}
  IN  \/ MissingNode \in reached
      \/ \E n \in reached \cap Nodes : types[n].tag = "unknown"
      \/ tags \ PrimTags # {}

\* C10: if a Type reached from an exported function's parameters or result
\* is a node id absent from the graph, a node of unsupported kind or an
\* unsupported primitive tag, createGraphQLSchema raises and returns no schema.
C10_NoPartialSchema == Unresolvable => (phase # "serving" /\ schema = 0)

\* the node an alias-to-node link of n leads to, if n is such an alias
AliasNext(n) ==
  IF n \in Nodes /\ types[n].tag = "alias" /\ types[n].elems[1].kind = "node"
  THEN {types[n].elems[1].id}
  ELSE {}

\* the node ids on the alias chain that starts at the ids
RECURSIVE AliasClosure(_, _)
AliasClosure(ids, fuel) ==
  IF fuel = 0 THEN ids
  ELSE AliasClosure(ids \cup UNION {AliasNext(n) : n \in ids}, fuel - 1)

\* where the alias chain of node reference t ends; empty when it is a cycle
ChainEnds(t) == {r \in AliasClosure({t.id}, NumNodes + 1) : AliasNext(r) = {}}

\* what resolveTypeIndex is to return for a reference whose chain ends at r
ExpectedIndex(t, r) ==
  IF r \in Nodes /\ types[r].tag = "alias" THEN t.id ELSE r

\* C11: in a graph whose alias chains contain no cycle resolveTypeIndex
\* terminates; it signals a primitive for a primitive tag; for a node id it
\* follows alias-to-node links and returns the first node id that is not an
\* alias, except that it returns the node id originally passed in when the
\* chain reaches an alias whose target is a primitive tag.
\* Stated of the reference a conversion is called with and of what the
\* conversions at the top of the stack took from it.
C11_ResolveTypeIndex ==
  /\ (stack # <<>> /\ Top.op = "call") =>
        CASE Top.type.kind = "prim" -> resolveTypeIndex(Top.type) = Undefined
          [] Top.type.kind = "node" ->
               ChainEnds(Top.type) # {} =>
                  \E r \in ChainEnds(Top.type) :
                     resolveTypeIndex(Top.type) = ExpectedIndex(Top.type, r)
          [] OTHER -> TRUE
  /\ \A k \in {Len(stack) - 1, Len(stack)} \cap (1 .. Len(stack)) :
        (stack[k].op # "call" /\ stack[k].type.kind = "node") =>
           \E r \in ChainEnds(stack[k].type) : stack[k].idx = ExpectedIndex(stack[k].type, r)
  /\ phase = "hung" => (Top.type.kind = "node" /\ ChainEnds(Top.type) = {})

\* a conversion is at work on the node its reference reached through an alias
C11_Witness ==
  \E k \in 1 .. Len(stack) :
     /\ stack[k].op = "record"
     /\ stack[k].type.kind = "node"
     /\ AliasNext(stack[k].type.id) = {stack[k].idx}
     /\ stack[k].idx # stack[k].type.id

\* a conversion is at work on the original node of a chain of two aliases
\* that ends at a primitive tag
C11_WitnessOriginal ==
  \E k \in 1 .. Len(stack) :
     /\ stack[k].op = "alias"
     /\ stack[k].idx = stack[k].type.id
     /\ \E n \in AliasNext(stack[k].idx) :
           types[n].tag = "alias" /\ types[n].elems[1].kind = "prim"

\* the composite kinds createRecordType does not handle
Composites == {"list", "option", "variant", "tuple", "result"}

\* the node ids a composite node that is no record refers to
CompositeNext(n) ==
  IF n \in Nodes /\ types[n].tag \in Composites
  THEN {t.id : t \in {r \in RefsOf(types[n]) : r.kind = "node"}}
  ELSE {}

RECURSIVE CompositeClosure(_, _)
CompositeClosure(ids, fuel) ==
  IF fuel = 0 THEN ids
  ELSE CompositeClosure(ids \cup UNION {CompositeNext(n) : n \in ids}, fuel - 1)

\* node n is a list, option, variant, tuple or result that refers to itself
\* without passing through a record
SelfThroughComposites(n) ==
  /\ n \in Nodes
  /\ types[n].tag \in Composites
  /\ n \in CompositeClosure(CompositeNext(n), NumNodes)

\* C12: converting a list, option, variant, tuple or result node that refers
\* to its own node id without passing through a record terminates and
\* yields a type in both directions: the build neither rejects such a
\* structure nor recurses into it until the call stack is exhausted.
C12_CompositeRecursionConverts ==
  \A k \in 1 .. Len(stack) :
     (stack[k].op \in Composites /\ SelfThroughComposites(stack[k].idx)) =>
        phase # "failed"

\* the alias chain of reference t ends at an alias of a tag of the primitive
\* table
EndsAtPrimitiveAlias(t) ==
  /\ t.kind = "node"
  /\ \E r \in ChainEnds(t) :
        /\ r \in Nodes
        /\ types[r].tag = "alias"
        /\ types[r].elems[1].tag \in PrimTags

\* the tag such a chain ends at
EndTag(t) ==
  types[CHOOSE r \in ChainEnds(t) : r \in Nodes /\ types[r].tag = "alias"].elems[1].tag

\* C13: a reference whose alias chain ends at an alias of a primitive tag of
\* the table converts, in either direction, to that primitive's scalar, and
\* the build does not fail.
C13_PrimitiveAliasConverts ==
  /\ \A k \in 1 .. Len(stack) :
        EndsAtPrimitiveAlias(stack[k].type) => phase # "failed"
  /\ \A e \in log :
        EndsAtPrimitiveAlias(e.type) => e.value = ExpectedScalar(EndTag(e.type))

====
